---- MODULE Spec2Model ----
(***************************************************************************)
(* A model of the WhatsApp relay bot (mashiahd/whatsapp-bot).              *)
(*                                                                         *)
(* Two scripts of the repository are modelled:                             *)
(*   "part_000"  src/unnamed/part_000: message handler, filter, delivery   *)
(*               with retries, and the HTTP gateway (POST /send,           *)
(*               GET /status);                                             *)
(*   "example"   src/example.js: the earlier script: the same filter, its  *)
(*               own forwardMessageToAPI, no HTTP gateway, and the bot     *)
(*               command '!testapi' (the one command that posts to the     *)
(*               endpoint).                                                *)
(*                                                                         *)
(* JavaScript strings that are searched or lower-cased are sequences of    *)
(* one-character strings; strings only compared for equality are TLA+      *)
(* strings.  JSON values are records [t |-> type, s |-> chars, n |-> int]. *)
(***************************************************************************)
EXTENDS Integers, Sequences, FiniteSets, TLC

VARIABLES
    program,    \* which script runs: "part_000" or "example"
    apiConfig,  \* require('./api-config'): read-only after start
    envToken,   \* process.env.WHATSAPP_SEND_AUTH_TOKEN ("" when unset)
    clientInfo, \* client.info is set (the session completed its ready handshake)
    ev,         \* per inbound message event: the handler's position and counters
    rq,         \* per gateway request: the handler's position and the response
    sends       \* the calls client.sendMessage received from the gateway, in order

vars == <<program, apiConfig, envToken, clientInfo, ev, rq, sends>>

----------------------------------------------------------------------------
(* Bounds of the model *)

MaxEvents == 2
MaxRequests == 2
MaxRelayRequests == 1
MaxRetry == 3

Events == 1..MaxEvents
Requests == 1..MaxRequests
\* the gateway requests that run beside the inbound events
RelayRequests == 1..MaxRelayRequests

----------------------------------------------------------------------------
(* JavaScript strings as sequences of characters *)

\* String.prototype.toLowerCase on one character of the model's alphabet
LowerChar(c) ==
    CASE c = "A" -> "a"
      [] c = "B" -> "b"
      [] c = "X" -> "x"
      [] OTHER -> c

\* String.prototype.toLowerCase
ToLowerCase(s) == [i \in 1..Len(s) |-> LowerChar(s[i])]

\* String.prototype.includes(needle): needle occurs in hay at some position
StrIncludes(hay, needle) ==
    \E i \in 0..(Len(hay) - Len(needle)) :
        SubSeq(hay, i + 1, i + Len(needle)) = needle

\* the lower-case spelling of a sender of the model
LowerSender(x) == IF x = "U1@c.us" THEN "u1@c.us" ELSE x

\* a variant that compares ignoring letter case
ArrIncludesIgnoringCase(arr, x) ==
    \E i \in 1..Len(arr) : LowerSender(arr[i]) = LowerSender(x)

\* Array.prototype.includes(x): strict equality with some element
ArrIncludes(arr, x) == \E i \in 1..Len(arr) : arr[i] = x

----------------------------------------------------------------------------
(* The filter: shouldForwardMessage *)

\* a variant that lower-cases the message only
KeywordMatchesRawKeyword(message, keyword) ==
    StrIncludes(ToLowerCase(message), keyword)

\* keyword => message.toLowerCase().includes(keyword.toLowerCase())
KeywordMatches(message, keyword) ==
    StrIncludes(ToLowerCase(message), ToLowerCase(keyword))

\* a variant that looks at the first keyword only
SomeKeywordFirstOnly(keywords, message) ==
    IF keywords = <<>> THEN FALSE
    ELSE KeywordMatches(message, Head(keywords))

\* filters.requiredKeywords.some(...), scanning the array from its first element
RECURSIVE SomeKeyword(_, _)
SomeKeyword(keywords, message) ==
    IF keywords = <<>> THEN FALSE
    ELSE IF KeywordMatches(message, Head(keywords)) THEN TRUE
    ELSE SomeKeyword(Tail(keywords), message)

\* a variant without the master switch
DisabledIgnored(cfg) == FALSE

\* a variant that also skips while a delivery is in flight
DisabledWhileBusy(cfg) == ~cfg.enabled \/ \E e \in Events : ev[e].inflight = 1

\* line 35: if (!apiConfig.enabled) return false
Disabled(cfg) == ~cfg.enabled

shouldForwardMessage(cfg, sender, message, additionalData) ==
    IF Disabled(cfg) THEN FALSE
    ELSE IF cfg.filters.skipOwnMessages /\ additionalData.isFromMe THEN FALSE
    ELSE IF cfg.filters.skipGroupMessages /\ additionalData.chatType = "group" THEN FALSE
    ELSE IF Len(cfg.filters.allowedSenders) > 0
            /\ ~ArrIncludes(cfg.filters.allowedSenders, sender) THEN FALSE
    ELSE IF Len(cfg.filters.requiredKeywords) > 0
            /\ ~SomeKeyword(cfg.filters.requiredKeywords, message) THEN FALSE
    ELSE TRUE

----------------------------------------------------------------------------
(* The delivery: forwardMessageToAPI *)

\* The console lines written at `site`. part_000 writes its details under
\* apiConfig.debug and otherwise one line under logSuccess or logErrors;
\* example.js writes its details always.
LogLines(cfg, site) ==
    IF program = "example"
    THEN CASE site = "received" -> 1
           [] site = "forwarding" -> 1
           [] site = "skipping" -> 1
           [] site = "attempt" -> 4
           [] site = "response" -> 2
           [] site = "body" -> 1
           [] site = "success" -> IF cfg.logSuccess THEN 1 ELSE 0
           [] site = "status" -> IF cfg.logErrors THEN 1 ELSE 0
           [] site = "error" -> IF cfg.logErrors THEN 2 ELSE 0
           [] OTHER -> 0
    ELSE CASE site = "received" -> IF cfg.debug THEN 3 ELSE 0
           [] site = "forwarding" -> IF cfg.debug THEN 2 ELSE 0
           [] site = "skipping" -> IF cfg.debug THEN 1 ELSE 0
           [] site = "attempt" -> IF cfg.debug THEN 6 ELSE 0
           [] site = "success" -> IF cfg.debug THEN 3 ELSE IF cfg.logSuccess THEN 1 ELSE 0
           [] site = "status" -> IF cfg.debug THEN 4 ELSE IF cfg.logErrors THEN 1 ELSE 0
           [] site = "error" -> IF cfg.debug THEN 4 ELSE IF cfg.logErrors THEN 1 ELSE 0
           [] site = "waiting" -> IF cfg.debug THEN 1 ELSE 0
           [] OTHER -> 0

\* { ...a, ...b }: the keys of both objects, b's value where both have the key
ObjectSpread(a, b) == b @@ a

\* new Date().toISOString() during attempt k: an ISO-8601 string of that instant
ToISOString(k) == [type |-> "string", format |-> "ISO-8601", at |-> <<"attempt", k>>]

\* msg.timestamp: a number, the message's time in epoch seconds
EpochSeconds == [type |-> "number", format |-> "epoch seconds", at |-> <<"message">>]

\* chat.name || 'Unknown'
ChatName(name) == IF name = "" THEN "Unknown" ELSE name

\* the handler's additionalData (part_000 line 313-321, example.js line 250-258);
\* in the model a group chat has a name and a private chat has none
AdditionalData(rec) ==
    [messageId |-> "true_1@c.us_3EB0", chatType |-> IF rec.isGroup THEN "group" ELSE "private",
     chatName |-> ChatName(IF rec.isGroup THEN "Family" ELSE ""),
     messageType |-> "chat", hasMedia |-> FALSE, timestamp |-> EpochSeconds,
     isFromMe |-> rec.fromMe]

\* line 73-78: the payload of one attempt
Payload(sender, message, attempt, additionalData) ==
    ObjectSpread([sender |-> sender, message |-> message, timestamp |-> ToISOString(attempt)],
                 additionalData)

\* a variant in which the configured headers come last
RequestHeadersConfigLast(cfg) ==
    ObjectSpread([Authorization |-> "Bearer " \o cfg.apiKey], cfg.headers)

\* line 92-95: { ...apiConfig.headers, 'Authorization': `Bearer ${apiConfig.apiKey}` }
RequestHeaders(cfg) ==
    ObjectSpread(cfg.headers, [Authorization |-> "Bearer " \o cfg.apiKey])

\* line 90-98: what fetch is called with
FetchRequest(rec, cfg) ==
    [method |-> "POST", headers |-> RequestHeaders(cfg),
     body |-> Payload(rec.sender, rec.body, rec.attempt, AdditionalData(rec))]

\* {}
EmptyObject == [k \in {} |-> ""]

NoFetchRequest == [method |-> "", headers |-> EmptyObject, body |-> EmptyObject]

\* console.log / console.error at `site`
Log(rec, cfg, site) == [rec EXCEPT !.logs = @ + LogLines(cfg, site)]

\* a variant that runs the loop body before its first test
LoopTestAfterFirstPass(attempt, retryAttempts) ==
    attempt = 1 \/ attempt <= retryAttempts

\* a variant that stops every delivery once one delivery has failed
LoopTestUntilAFailure(attempt, retryAttempts) ==
    attempt <= retryAttempts /\ \A e \in Events : ev[e].result # "false"

\* the for loop's test: attempt <= retryAttempts
LoopTest(attempt, retryAttempts) == attempt <= retryAttempts

\* a variant that takes the attempt before the last for the last
IsLastAttemptOffByOne(attempt, retryAttempts) == attempt + 1 = retryAttempts

\* if (attempt === retryAttempts) return false
IsLastAttempt(attempt, retryAttempts) == attempt = retryAttempts

\* a variant whose try block ends after the fetch call
InsideTryFetchOnly(site) == site = "fetch"

\* a variant whose try block starts after the fetch call
InsideTryAfterFetch(site) == site = "text"

\* Whether an exception thrown at `site` of the loop body is inside the try
\* block: the fetch call and both reads of the response are.
InsideTry(site) == site \in {"fetch", "text"}

\* forwardMessageToAPI returns `value` to the message handler, which awaits it
\* and goes on to the bot commands: '!testapi' (example.js only) calls
\* testAPIConnection, which posts a test payload to the endpoint.
TestApiBody == <<"!", "t", "e", "s", "t", "a", "p", "i">>

HandlerTail(rec) ==
    IF program = "example" /\ rec.body = TestApiBody
    THEN [rec EXCEPT !.pc = "testapi", !.testPosts = @ + 1]
    ELSE [rec EXCEPT !.pc = "done"]

\* a variant that queues an event whose attempts all failed for one more round
ReturnQueuesAgain(rec, value) ==
    IF value = "false" /\ rec.posts > 0 /\ rec.posts = apiConfig.retryAttempts
    THEN [rec EXCEPT !.pc = "delay", !.attempt = 0, !.inflight = 0]
    ELSE HandlerTail([rec EXCEPT !.result = value, !.inflight = 0])

Return(rec, value) ==
    HandlerTail([rec EXCEPT !.result = value, !.inflight = 0])

\* an exception escapes forwardMessageToAPI: the handler's promise rejects
Raise(rec) == [rec EXCEPT !.pc = "rejected", !.result = "raised", !.inflight = 0]

\* a variant that asks the filter again before every retry
StartAttemptReevaluating(rec, cfg) ==
    IF LoopTest(rec.attempt, cfg.retryAttempts)
    THEN [rec EXCEPT !.pc = "fetch", !.posts = @ + 1, !.inflight = 1,
                     !.evals = IF rec.attempt > 1 THEN @ + 1 ELSE @]
    ELSE Return(rec, "false")

\* the top of the loop: test, build the payload, call fetch and await it
StartAttempt(rec, cfg) ==
    IF LoopTest(rec.attempt, cfg.retryAttempts)
    THEN [Log(rec, cfg, "attempt") EXCEPT !.pc = "fetch", !.posts = @ + 1, !.inflight = 1,
                                          !.request = FetchRequest(rec, cfg)]
    ELSE Return(rec, "false")

\* a variant that starts the next attempt at once, without the delay
FailedAttemptWithoutDelay(rec, cfg) ==
    IF IsLastAttempt(rec.attempt, cfg.retryAttempts)
    THEN Return(rec, "false")
    ELSE [rec EXCEPT !.pc = "fetch", !.attempt = @ + 1, !.posts = @ + 1, !.inflight = 1]

\* a variant that gives up its retries when another event has arrived meanwhile
FailedAttemptUnlessAnotherArrived(rec, cfg) ==
    IF IsLastAttempt(rec.attempt, cfg.retryAttempts)
          \/ \E e \in Events : ev[e].pc = "getChat"
    THEN Return(rec, "false")
    ELSE [rec EXCEPT !.pc = "delay", !.delays = @ + 1, !.inflight = 0]

\* a variant that retries only when errors are logged
FailedAttemptRetriesWhenLogged(rec, cfg) ==
    IF IsLastAttempt(rec.attempt, cfg.retryAttempts) \/ ~cfg.logErrors
    THEN Return(rec, "false")
    ELSE [rec EXCEPT !.pc = "delay", !.delays = @ + 1, !.inflight = 0]

\* the common tail of the else branch and of the catch block
FailedAttempt(rec, cfg) ==
    IF IsLastAttempt(rec.attempt, cfg.retryAttempts)
    THEN Return(rec, "false")
    ELSE [Log(rec, cfg, "waiting") EXCEPT !.pc = "delay", !.delays = @ + 1, !.inflight = 0]

\* an exception thrown at `site`
Thrown(rec, cfg, site) ==
    IF InsideTry(site) THEN FailedAttempt(Log(rec, cfg, "error"), cfg) ELSE Raise(rec)

\* what follows `await fetch(...)` in the script `prog`, by the outcome of the call
FetchSettledIn(prog, rec, cfg, outcome) ==
    LET got == IF outcome = "ok" /\ rec.okAt = 0
               THEN [rec EXCEPT !.okAt = rec.attempt, !.ok = TRUE]
               ELSE [rec EXCEPT !.ok = (outcome = "ok")]
    IN  CASE outcome \in {"transport", "timeout", "badurl"} ->
                Thrown(got, cfg, "fetch")
          [] prog = "example" ->
                \* line 97: the body is read before response.ok is looked at
                [Log(got, cfg, "response") EXCEPT !.pc = "text"]
          [] outcome = "ok" ->
                \* part_000 line 100-108
                Return(Log(got, cfg, "success"), "true")
          [] OTHER ->
                \* part_000 line 110
                [got EXCEPT !.pc = "text"]

FetchSettled(rec, cfg, outcome) == FetchSettledIn(program, rec, cfg, outcome)

\* what follows `await response.text()`
TextSettled(rec, cfg, read) ==
    IF ~read THEN Thrown(rec, cfg, "text")
    ELSE IF rec.ok THEN Return(Log(Log(rec, cfg, "body"), cfg, "success"), "true")
    ELSE FailedAttempt(Log(Log(rec, cfg, "body"), cfg, "status"), cfg)

----------------------------------------------------------------------------
(* Inputs *)

Senders == {"u1@c.us", "U1@c.us", "u2@c.us", "u1@c.us2"}

Bodies == { <<>>, <<"a">>, <<"A", "b">>, <<"b", "a", "x">>, <<"X">>, TestApiBody }

AllowedSenderLists == { <<>>, <<"u1@c.us">>, <<"u2@c.us", "u1@c.us">> }

KeywordLists == { <<>>, << <<"a">> >>, << <<"A", "B">> >>,
                  << <<"b", "b">>, <<"x">> >>, << <<>> >> }

FilterSets ==
    [skipOwnMessages : BOOLEAN, skipGroupMessages : BOOLEAN,
     allowedSenders : AllowedSenderLists, requiredKeywords : KeywordLists]

PassAll ==
    [skipOwnMessages |-> FALSE, skipGroupMessages |-> FALSE,
     allowedSenders |-> <<>>, requiredKeywords |-> <<>>]

DefaultHeaders == "Content-Type" :> "application/json"
Config(enabled, filters, retryAttempts, endpointValid, debug, logSuccess, logErrors) ==
    [enabled |-> enabled, filters |-> filters, retryAttempts |-> retryAttempts,
     endpointValid |-> endpointValid, debug |-> debug,
     logSuccess |-> logSuccess, logErrors |-> logErrors,
     headers |-> DefaultHeaders, apiKey |-> "k3y"]

\* every filter setting, with one or two attempts
FilterConfigs ==
    { Config(en, f, n, TRUE, FALSE, TRUE, TRUE) :
        en \in BOOLEAN, f \in FilterSets, n \in 1..2 }

\* every retry setting and flag, with a filter that lets everything through
\* or the relay switched off
DeliveryConfigs ==
    { Config(en, PassAll, n, valid, d, ls, le) :
        en \in BOOLEAN, n \in (-1)..MaxRetry, valid \in BOOLEAN,
        d \in BOOLEAN, ls \in BOOLEAN, le \in BOOLEAN }

\* the messages the session emits: msg.from, msg.body, msg.fromMe and the
\* isGroup of msg.getChat()
Msgs(senders, bodies, fromMes, isGroups) ==
    [from : senders, body : bodies, fromMe : fromMes, isGroup : isGroups]

AllMsgs == Msgs(Senders, Bodies, BOOLEAN, BOOLEAN)

IdleEvent ==
    [pc |-> "idle", sender |-> "", body |-> <<>>, fromMe |-> FALSE, isGroup |-> FALSE,
     evals |-> 0, decision |-> "none", attempt |-> 0, posts |-> 0, inflight |-> 0,
     delays |-> 0, okAt |-> 0, ok |-> FALSE, result |-> "none", testPosts |-> 0,
     logs |-> 0, request |-> NoFetchRequest]

----------------------------------------------------------------------------
(* The message handler: client.on('message') *)

\* the handler runs up to `await msg.getChat()`
MessageEvent(e, messages) ==
    /\ ev[e].pc = "idle"
    /\ IF e = 1 THEN TRUE ELSE ev[e - 1].pc # "idle"  \* numbered in arrival order
    /\ \E msg \in messages :
          ev' = [ev EXCEPT ![e] = [IdleEvent EXCEPT !.pc = "getChat", !.sender = msg.from,
                                      !.body = msg.body, !.fromMe = msg.fromMe,
                                      !.isGroup = msg.isGroup,
                                      !.logs = LogLines(apiConfig, "received")]]
    /\ UNCHANGED <<program, apiConfig, envToken, clientInfo, rq, sends>>

\* getChat resolves: additionalData is built, the filter is evaluated and,
\* when it passes, forwardMessageToAPI runs to its first await
GetChatResolves(e) ==
    /\ ev[e].pc = "getChat"
    /\ LET rec == ev[e]
           additionalData == AdditionalData(rec)
           fwd == shouldForwardMessage(apiConfig, rec.sender, rec.body, additionalData)
           seen == [rec EXCEPT !.evals = @ + 1,
                               !.decision = IF fwd THEN "forward" ELSE "skip"]
       IN  ev' = [ev EXCEPT ![e] =
                    IF fwd
                    THEN StartAttempt([Log(seen, apiConfig, "forwarding") EXCEPT !.attempt = 1],
                                      apiConfig)
                    ELSE HandlerTail(Log(seen, apiConfig, "skipping"))]
    /\ UNCHANGED <<program, apiConfig, envToken, clientInfo, rq, sends>>

\* the outcomes fetch can have: a response with a 2xx status, a response with
\* another status, a connection error, a timeout; with a malformed endpoint
\* the call rejects before anything is sent
FetchOutcomes(cfg) ==
    IF cfg.endpointValid THEN {"ok", "status", "transport", "timeout"} ELSE {"badurl"}

\* the awaited fetch settles with one of `outcomes`
FetchResolvesWith(e, outcomes) ==
    /\ ev[e].pc = "fetch"
    /\ \E o \in FetchOutcomes(apiConfig) \cap outcomes :
          ev' = [ev EXCEPT ![e] = FetchSettled(ev[e], apiConfig, o)]
    /\ UNCHANGED <<program, apiConfig, envToken, clientInfo, rq, sends>>

FetchResolves(e) ==
    FetchResolvesWith(e, {"ok", "status", "transport", "timeout", "badurl"})

TextResolves(e) ==
    /\ ev[e].pc = "text"
    /\ \E read \in BOOLEAN :
          ev' = [ev EXCEPT ![e] = TextSettled(ev[e], apiConfig, read)]
    /\ UNCHANGED <<program, apiConfig, envToken, clientInfo, rq, sends>>

\* setTimeout(resolve, retryDelay) fires: attempt++ and the loop goes round
DelayFires(e) ==
    /\ ev[e].pc = "delay"
    /\ ev' = [ev EXCEPT ![e] = StartAttempt([ev[e] EXCEPT !.attempt = @ + 1], apiConfig)]
    /\ UNCHANGED <<program, apiConfig, envToken, clientInfo, rq, sends>>

\* testAPIConnection's fetch settles (it catches its own errors)
TestApiSettles(e) ==
    /\ ev[e].pc = "testapi"
    /\ ev' = [ev EXCEPT ![e].pc = "done"]
    /\ UNCHANGED <<program, apiConfig, envToken, clientInfo, rq, sends>>

----------------------------------------------------------------------------
(* JSON values of a request body *)

Undef == [t |-> "undefined", s |-> <<>>, n |-> 0]
Null == [t |-> "null", s |-> <<>>, n |-> 0]
Str(chars) == [t |-> "string", s |-> chars, n |-> 0]
Num(k) == [t |-> "number", s |-> <<>>, n |-> k]

\* JavaScript's ToBoolean: !v is ~Truthy(v)
Truthy(v) ==
    CASE v.t = "string" -> Len(v.s) > 0
      [] v.t = "number" -> v.n # 0
      [] OTHER -> FALSE

AtCUs == <<"@", "c", ".", "u", "s">>
AtGUs == <<"@", "g", ".", "u", "s">>
TextType == <<"t", "e", "x", "t">>
LocationType == <<"l", "o", "c", "a", "t", "i", "o", "n">>

\* line 556-560: the recipient of a string `to`
FormatPhoneNumber(to) ==
    IF ~StrIncludes(to, AtCUs) /\ ~StrIncludes(to, AtGUs) THEN to \o AtCUs ELSE to

\* a variant without the default
TypeOfNoDefault(data) == data.type

\* a variant that ignores the body's type
TypeOfAlwaysText(data) == Str(TextType)

\* const { to, message, type = 'text' } = data: the default applies to undefined only
TypeOf(data) == IF data.type = Undef THEN Str(TextType) ELSE data.type

----------------------------------------------------------------------------
(* The HTTP gateway: http.createServer's request handler *)

\* line 9: process.env.WHATSAPP_SEND_AUTH_TOKEN || 'your-secret-token-here'
HTTP_AUTH_TOKEN == IF envToken = "" THEN "your-secret-token-here" ELSE envToken

NoHeader == [present |-> FALSE, value |-> ""]
Header(v) == [present |-> TRUE, value |-> v]

\* a variant that rejects a wrong header but lets a missing one through
UnauthorizedWhenPresent(authHeader) ==
    /\ authHeader.present
    /\ authHeader.value # ""
    /\ authHeader.value # "Bearer " \o HTTP_AUTH_TOKEN

\* line 530: !authHeader || authHeader !== `Bearer ${HTTP_AUTH_TOKEN}`
Unauthorized(authHeader) ==
    \/ ~authHeader.present
    \/ authHeader.value = ""
    \/ authHeader.value # "Bearer " \o HTTP_AUTH_TOKEN

\* url.parse(req.url, true).pathname for the request targets of the model
Pathname(u) ==
    CASE u = "/send?x=1" -> "/send"
      [] u = "/status?verbose" -> "/status"
      [] OTHER -> u

NoBody == [json |-> "none", to |-> Undef, message |-> Undef, type |-> Undef,
           latitude |-> Undef, longitude |-> Undef, name |-> Undef, address |-> Undef]

\* head: the status res.writeHead wrote (0: none); ends: the calls of res.end;
\* json: the body is JSON text; the other fields are the keys of that JSON
NoResponse ==
    [head |-> 0, ends |-> 0, json |-> FALSE, error |-> "", details |-> "",
     success |-> FALSE, messageId |-> "", timestamp |-> 0, status |-> "", whatsapp |-> ""]

NoReceipt == [id |-> "", timestamp |-> 0]

\* cors: the headers res.setHeader set; receipt, sendError: what the request's
\* client.sendMessage call resolved with or threw
IdleRequest ==
    [pc |-> "idle", method |-> "", url |-> "", auth |-> NoHeader, cors |-> {},
     bodyRead |-> FALSE, data |-> NoBody, calls |-> 0, receipt |-> NoReceipt,
     sendError |-> "", resp |-> NoResponse]

\* a variant that forgets Access-Control-Allow-Headers
CorsHeadersWithoutAllowHeaders ==
    { <<"Access-Control-Allow-Origin", "*">>,
      <<"Access-Control-Allow-Methods", "GET, POST, OPTIONS">> }

\* line 517-519: the three res.setHeader calls
CorsHeaders ==
    { <<"Access-Control-Allow-Origin", "*">>,
      <<"Access-Control-Allow-Methods", "GET, POST, OPTIONS">>,
      <<"Access-Control-Allow-Headers", "Content-Type, Authorization">> }

\* a variant without the preflight branch
IsPreflightNever(method) == FALSE

\* line 522: req.method === 'OPTIONS'
IsPreflight(method) == method = "OPTIONS"

\* a variant that serves /status to every method
RouteStatusAnyMethod(method, path) ==
    IF method = "POST" /\ path = "/send" THEN "send"
    ELSE IF path = "/status" THEN "status"
    ELSE "notfound"

\* line 539, 595, 602: the if / else if / else over (method, pathname)
Route(method, path) ==
    IF method = "POST" /\ path = "/send" THEN "send"
    ELSE IF method = "GET" /\ path = "/status" THEN "status"
    ELSE "notfound"

\* a variant that reports 'connected' whatever client.info is
WhatsappStateAlwaysConnected(info) == "connected"

\* line 599: client.info ? 'connected' : 'connecting'
WhatsappState(info) == IF info THEN "connected" ELSE "connecting"

\* line 596-601: the body of the /status response
StatusResponse ==
    [NoResponse EXCEPT !.head = 200, !.ends = 1, !.json = TRUE,
                       !.status = "running", !.whatsapp = WhatsappState(clientInfo)]

\* res.writeHead(status, {'Content-Type': 'application/json'});
\* res.end(JSON.stringify({ error: text }))
\* a variant that answers with a plain text body
ErrorResponsePlainText(status, text) ==
    [NoResponse EXCEPT !.head = status, !.ends = 1]

ErrorResponse(status, text) ==
    [NoResponse EXCEPT !.head = status, !.ends = 1, !.json = TRUE, !.error = text]

Respond(req, resp) == [req EXCEPT !.pc = "done", !.resp = resp]

\* a variant that routes POST /send before it authenticates
HandleRequestRouteFirst(req) ==
    LET r0 == [req EXCEPT !.cors = CorsHeaders]
        route == Route(req.method, Pathname(req.url))
    IN  IF IsPreflight(req.method)
        THEN Respond(r0, [NoResponse EXCEPT !.head = 200, !.ends = 1])
        ELSE IF route = "send"
        THEN [r0 EXCEPT !.pc = "body"]
        ELSE IF Unauthorized(req.auth)
        THEN Respond(r0, ErrorResponse(401, "Unauthorized"))
        ELSE IF route = "status"
        THEN Respond(r0, StatusResponse)
        ELSE Respond(r0, ErrorResponse(404, "Not found"))

\* line 515-606 up to the first await: CORS headers, preflight, authentication, routing
HandleRequest(req) ==
    LET r0 == [req EXCEPT !.cors = CorsHeaders]
        route == Route(req.method, Pathname(req.url))
    IN  IF IsPreflight(req.method)
        THEN Respond(r0, [NoResponse EXCEPT !.head = 200, !.ends = 1])
        ELSE IF Unauthorized(req.auth)
        THEN Respond(r0, ErrorResponse(401, "Unauthorized"))
        ELSE IF route = "send"
        THEN [r0 EXCEPT !.pc = "body"]
        ELSE IF route = "status"
        THEN Respond(r0, StatusResponse)
        ELSE Respond(r0, ErrorResponse(404, "Not found"))

\* a variant that tests the latitude only
LocationIncompleteLatitudeOnly(data) == ~Truthy(data.latitude)

\* line 569: if (!latitude || !longitude)
LocationIncomplete(data) == ~Truthy(data.latitude) \/ ~Truthy(data.longitude)

\* line 550: if (!to || !message)
MissingFields(data) == ~Truthy(data.to) \/ ~Truthy(data.message)

\* a variant that does not pass the exception's message on
SendFailedWithoutDetails(req, message) ==
    Respond(req, ErrorResponse(500, "Failed to send message"))

\* the catch block of the 'end' listener, line 589-593
SendFailed(req, message) ==
    Respond(req, [ErrorResponse(500, "Failed to send message") EXCEPT !.details = message])

\* res.headersSent: res.writeHead has been called
HeadersSent(resp) == resp.head # 0

\* line 589-593 entered with `message` thrown: res.writeHead throws
\* ERR_HTTP_HEADERS_SENT when the status line is written already, the
\* exception leaves the listener and res.end is not reached
Catch(req, message) ==
    IF HeadersSent(req.resp)
    THEN [req EXCEPT !.pc = "rejected"]
    ELSE SendFailed(req, message)

\* line 582-587 when the send resolved with undefined: res.writeHead(200) is
\* called, then result.id throws a TypeError before res.end is called
SendSucceededWithNothing(req) ==
    Catch([req EXCEPT !.resp = [NoResponse EXCEPT !.head = 200]],
          "Cannot read properties of undefined (reading 'id')")

\* the call client.sendMessage(phoneNumber, content) of request r
SendCall(r, phoneNumber, content) ==
    [req |-> r, to |-> phoneNumber, content |-> content]

\* options, extra: the third and fourth argument given to Location;
\* name, address: what the Location built from them holds
TextContent(message) ==
    [kind |-> "text", message |-> message, latitude |-> Undef, longitude |-> Undef,
     options |-> Undef, extra |-> Undef, name |-> Undef, address |-> Undef]

\* An options object { name, address }
Options(name, address) ==
    [t |-> "object", s |-> <<>>, n |-> 0, name |-> name, address |-> address]

\* options.name, options.address: a property of an object is its value, a
\* property of a string or of the default {} is undefined
Property(options, key) ==
    IF options.t = "object" THEN options[key] ELSE Undef

\* The library's Location(latitude, longitude, options = {}): the location
\* holds options.name and options.address; a fourth argument is ignored.
Location(latitude, longitude, options, extra) ==
    [kind |-> "location", message |-> Undef, latitude |-> latitude,
     longitude |-> longitude, options |-> options, extra |-> extra,
     name |-> Property(options, "name"), address |-> Property(options, "address")]

\* line 568, 574: new Location(latitude, longitude, name, address)
LocationContent(data) ==
    Location(data.latitude, data.longitude, data.name, data.address)

\* line 545-580: the 'end' listener up to `await client.sendMessage(...)`.
\* The result is <<the request's record, the calls made>>.
HandleEnd(r, req, data) ==
    LET r0 == [req EXCEPT !.bodyRead = TRUE, !.data = data]
        type == TypeOf(data)
    IN  IF data.json = "malformed" THEN <<Catch(r0, "Unexpected token"), <<>> >>
        ELSE IF data.json = "null"
        THEN <<Catch(r0, "Cannot destructure property"), <<>> >>
        ELSE IF MissingFields(data)
        THEN <<Respond(r0, ErrorResponse(400, "Missing required fields: to, message")), <<>> >>
        ELSE IF data.to.t # "string"
        THEN <<Catch(r0, "phoneNumber.includes is not a function"), <<>> >>
        ELSE IF type = Str(TextType)
        THEN << [r0 EXCEPT !.pc = "send", !.calls = @ + 1],
                << SendCall(r, FormatPhoneNumber(data.to.s), TextContent(data.message)) >> >>
        ELSE IF type = Str(LocationType)
        THEN IF LocationIncomplete(data)
             THEN <<Respond(r0, ErrorResponse(400, "Location requires latitude and longitude")),
                    <<>> >>
             ELSE << [r0 EXCEPT !.pc = "send", !.calls = @ + 1],
                     << SendCall(r, FormatPhoneNumber(data.to.s), LocationContent(data)) >> >>
        ELSE <<Respond(r0, ErrorResponse(400, "Unsupported message type")), <<>> >>

\* a variant that leaves the timestamp out of the response
SendSucceededWithoutTimestamp(req, receipt) ==
    Respond(req, [NoResponse EXCEPT !.head = 200, !.ends = 1, !.json = TRUE,
                     !.success = TRUE, !.messageId = receipt.id])

\* a variant that keeps the result of the send in a variable shared by all
\* requests: the first request's result is the one reported
SendSucceededSharedResult(req, receipt) ==
    LET result == IF rq[1].receipt # NoReceipt THEN rq[1].receipt ELSE receipt
    IN  Respond(req, [NoResponse EXCEPT !.head = 200, !.ends = 1, !.json = TRUE,
                         !.success = TRUE, !.messageId = result.id,
                         !.timestamp = result.timestamp])

\* line 582-587: the send resolved with `receipt`
SendSucceeded(req, receipt) ==
    Respond(req, [NoResponse EXCEPT !.head = 200, !.ends = 1, !.json = TRUE,
                     !.success = TRUE, !.messageId = receipt.id,
                     !.timestamp = receipt.timestamp])

----------------------------------------------------------------------------
(* Gateway inputs *)

Methods == {"GET", "POST", "OPTIONS", "PUT"}
Urls == {"/send", "/status", "/send?x=1", "/status?verbose", "/", "/sendx"}
EnvTokens == {"", "s3cret"}
AuthHeaders ==
    {NoHeader, Header(""), Header("Bearer s3cret"), Header("Bearer your-secret-token-here"),
     Header("bearer s3cret"), Header("s3cret"), Header("Bearer s3cret ")}

Tos == {Undef, Null, Str(<<>>), Num(5), Str(<<"1">>), Str(<<"1">> \o AtCUs),
        Str(<<"a">> \o AtGUs), Str(AtCUs \o <<"x">>), Str(<<"1", "@", "c", ".", "u">>)}
Messages == {Undef, Str(<<>>), Str(<<"h", "i">>)}
Types == {Undef, Null, Str(TextType), Str(LocationType), Str(<<"i", "m", "g">>)}
Latitudes == {Undef, Num(0), Num(37)}
Longitudes == {Undef, Num(0), Num(-122)}
Names == {Undef, Str(<<"n">>)}
Addresses == {Undef, Str(<<"a">>)}

JsonObjects ==
    [json : {"object"}, to : Tos, message : Messages, type : Types,
     latitude : Latitudes, longitude : Longitudes, name : Names, address : Addresses]

RequestBodies ==
    JsonObjects \cup {[NoBody EXCEPT !.json = "malformed"], [NoBody EXCEPT !.json = "null"]}

Receipts == [id : {"msgA", "msgB"}, timestamp : {1700000000, 1700000001}]
SendErrors == {"Session closed", "invalid wid"}

----------------------------------------------------------------------------
(* Gateway actions *)

\* a request's headers arrive and the handler runs to its end or to the
\* registration of the body listeners
HttpRequest(r, methods, urls, auths) ==
    /\ program = "part_000"
    /\ rq[r].pc = "idle"
    /\ IF r = 1 THEN TRUE ELSE rq[r - 1].pc # "idle"  \* numbered in arrival order
    /\ \E m \in methods, u \in urls, a \in auths :
          rq' = [rq EXCEPT ![r] =
                    HandleRequest([IdleRequest EXCEPT !.method = m, !.url = u, !.auth = a])]
    /\ UNCHANGED <<program, apiConfig, envToken, clientInfo, ev, sends>>

\* the request's 'end' event: the body is complete
RequestEnd(r, bodies) ==
    /\ rq[r].pc = "body"
    /\ \E data \in bodies :
          LET out == HandleEnd(r, rq[r], data)
          IN  /\ rq' = [rq EXCEPT ![r] = out[1]]
              /\ sends' = sends \o out[2]
    /\ UNCHANGED <<program, apiConfig, envToken, clientInfo, ev>>

\* client.sendMessage resolves with a receipt
SendResolves(r, receipts) ==
    /\ rq[r].pc = "send"
    /\ \E receipt \in receipts :
          rq' = [rq EXCEPT ![r] = SendSucceeded([rq[r] EXCEPT !.receipt = receipt], receipt)]
    /\ UNCHANGED <<program, apiConfig, envToken, clientInfo, ev, sends>>

\* client.sendMessage resolves with undefined: no message came back
SendResolvesWithNothing(r) ==
    /\ rq[r].pc = "send"
    /\ rq' = [rq EXCEPT ![r] = SendSucceededWithNothing(rq[r])]
    /\ UNCHANGED <<program, apiConfig, envToken, clientInfo, ev, sends>>

\* client.sendMessage rejects
SendRejects(r) ==
    /\ rq[r].pc = "send"
    /\ \E message \in SendErrors :
          rq' = [rq EXCEPT ![r] = Catch([rq[r] EXCEPT !.sendError = message], message)]
    /\ UNCHANGED <<program, apiConfig, envToken, clientInfo, ev, sends>>

\* the session's 'ready' handshake completes: client.info is set
ClientReady ==
    /\ ~clientInfo
    /\ clientInfo' = TRUE
    /\ UNCHANGED <<program, apiConfig, envToken, ev, rq, sends>>

----------------------------------------------------------------------------
(* Specifications *)

Programs == {"part_000", "example"}

InitWith(programs, configs, tokens) ==
    /\ program \in programs
    /\ apiConfig \in configs
    /\ envToken \in tokens
    /\ clientInfo = FALSE
    /\ ev = [e \in Events |-> IdleEvent]
    /\ rq = [r \in Requests |-> IdleRequest]
    /\ sends = <<>>

DeliverySteps(e) ==
    \/ GetChatResolves(e)
    \/ FetchResolves(e)
    \/ TextResolves(e)
    \/ DelayFires(e)

RelaySteps(e) == DeliverySteps(e) \/ TestApiSettles(e)

GatewaySteps(r) ==
    \/ SendResolves(r, Receipts)
    \/ SendResolvesWithNothing(r)
    \/ SendRejects(r)

\* The filter: one inbound event, every filter setting
InitFilter == InitWith(Programs, FilterConfigs, {"s3cret"})
NextFilter == MessageEvent(1, AllMsgs) \/ RelaySteps(1)
SpecFilter == InitFilter /\ [][NextFilter]_vars

\* The delivery: one inbound event, every retry setting
InitDelivery == InitWith(Programs, DeliveryConfigs, {"s3cret"})
DeliveryMsgs == Msgs({"u1@c.us"}, {<<"a">>, TestApiBody}, {FALSE}, BOOLEAN)
NextDelivery == MessageEvent(1, DeliveryMsgs) \/ RelaySteps(1)
SpecDelivery == InitDelivery /\ [][NextDelivery]_vars

\* The delivery when every awaited call settles and every timer fires
SpecDeliveryFair ==
    /\ SpecDelivery
    /\ WF_vars(FetchResolves(1))
    /\ WF_vars(TextResolves(1))
    /\ WF_vars(DelayFires(1))

\* The delivery when the endpoint answers 2xx or not in time: one inbound
\* event, every retry setting, every failed fetch a timeout
TimeoutConfigs == { cfg \in DeliveryConfigs : cfg.endpointValid }
InitTimeout == InitWith(Programs, TimeoutConfigs, {"s3cret"})
NextTimeout ==
    \/ MessageEvent(1, DeliveryMsgs)
    \/ GetChatResolves(1)
    \/ FetchResolvesWith(1, {"ok", "timeout"})
    \/ TextResolves(1)
    \/ DelayFires(1)
    \/ TestApiSettles(1)
SpecTimeout == InitTimeout /\ [][NextTimeout]_vars

\* The POST of each attempt: one inbound event of every kind, configured
\* headers with and without an entry named Authorization, two API keys
HeaderSets ==
    { EmptyObject, DefaultHeaders,
      ("Authorization" :> "Basic abc") @@ DefaultHeaders,
      ("X-Source" :> "bot") @@ ("Authorization" :> "Bearer other") }
ApiKeys == { "k3y", "k2" }
PostConfigs ==
    { [Config(TRUE, PassAll, n, TRUE, FALSE, TRUE, TRUE) EXCEPT !.headers = h, !.apiKey = k] :
        n \in 1..2, h \in HeaderSets, k \in ApiKeys }
PostMsgs == Msgs({"u1@c.us"}, {<<"a">>, TestApiBody}, BOOLEAN, BOOLEAN)
InitPost == InitWith(Programs, PostConfigs, {"s3cret"})
NextPost == MessageEvent(1, PostMsgs) \/ RelaySteps(1)
SpecPost == InitPost /\ [][NextPost]_vars

\* The gateway: one request, every request of the input sets
GatewayConfig == Config(TRUE, PassAll, 1, TRUE, FALSE, TRUE, TRUE)
InitGateway == InitWith({"part_000"}, {GatewayConfig}, EnvTokens)
NextGateway ==
    \/ HttpRequest(1, Methods, Urls, AuthHeaders)
    \/ RequestEnd(1, RequestBodies)
    \/ GatewaySteps(1)
    \/ ClientReady
SpecGateway == InitGateway /\ [][NextGateway]_vars

\* The gateway under concurrent requests: every interleaving of the requests'
\* arrivals, body ends and send outcomes
ConcurrentBodies ==
    { [NoBody EXCEPT !.json = "object", !.to = Str(<<"1">>), !.message = Str(<<"h", "i">>)],
      [NoBody EXCEPT !.json = "object", !.to = Str(<<"1">>)],
      [NoBody EXCEPT !.json = "malformed"] }
InitConcurrent == InitWith({"part_000"}, {GatewayConfig}, {"s3cret"})
NextConcurrent ==
    \/ \E r \in Requests :
          \/ HttpRequest(r, {"GET", "POST", "OPTIONS"}, {"/send", "/status", "/"},
                         {NoHeader, Header("Bearer s3cret")})
          \/ RequestEnd(r, ConcurrentBodies)
          \/ GatewaySteps(r)
    \/ ClientReady
SpecConcurrent == InitConcurrent /\ [][NextConcurrent]_vars

\* The whole of part_000: concurrent events and requests over small input sets
\* (TestApiSettles belongs to example.js only)
SmallConfigs == { Config(TRUE, [PassAll EXCEPT !.requiredKeywords = << <<"a">> >>],
                         2, TRUE, FALSE, TRUE, TRUE) }
SmallMsgs == Msgs({"u1@c.us"}, {<<"a">>, <<"X">>}, {FALSE}, {FALSE})
SmallBodies ==
    { [NoBody EXCEPT !.json = "object", !.to = Str(<<"1">>), !.message = Str(<<"h", "i">>)],
      [NoBody EXCEPT !.json = "object", !.to = Str(<<"1">>)] }
SmallReceipts == { [id |-> "msgA", timestamp |-> 1700000000] }

Init == InitWith({"part_000"}, SmallConfigs, {"s3cret"})
Next ==
    \/ \E e \in Events : MessageEvent(e, SmallMsgs) \/ DeliverySteps(e)
    \/ \E r \in RelayRequests :
          \/ HttpRequest(r, {"GET", "POST"}, {"/send", "/status"},
                         {NoHeader, Header("Bearer s3cret")})
          \/ RequestEnd(r, SmallBodies)
          \/ SendResolves(r, SmallReceipts)
          \/ SendRejects(r)
    \/ ClientReady
Spec == Init /\ [][Next]_vars

----------------------------------------------------------------------------
(* Properties of the delivery *)

Forwarded(e) == ev[e].decision = "forward"
Returned(e) == ev[e].result \in {"true", "false"}

\* C1: forwardMessageToAPI returns true exactly when some attempt k <= N got a
\* 2xx response, and then attempt k is the last: no delay and no further
\* attempt follow it (okAt is the first attempt that got a 2xx response).
C1_TrueIffSuccessAndLast ==
    \A e \in Events :
        /\ Returned(e) => (ev[e].result = "true" <=> ev[e].okAt # 0)
        /\ ev[e].okAt # 0 =>
              /\ ev[e].posts = ev[e].okAt
              /\ ev[e].delays = ev[e].okAt - 1
              /\ ev[e].pc # "delay"

\* C2: with N = retryAttempts >= 1 and no attempt that got a 2xx response,
\* the delivery makes exactly N attempts, takes exactly N - 1 delays, one
\* between consecutive attempts and none after the last, and returns false.
C2_AllFailExactlyN ==
    \A e \in Events :
        (Forwarded(e) /\ ev[e].okAt = 0 /\ apiConfig.retryAttempts >= 1) =>
            /\ ev[e].pc \in {"fetch", "text"} => ev[e].delays = ev[e].posts - 1
            /\ ev[e].pc = "delay" =>
                  ev[e].delays = ev[e].posts /\ ev[e].posts < apiConfig.retryAttempts
            /\ ev[e].posts <= apiConfig.retryAttempts
            /\ ev[e].result # "none" =>
                  /\ ev[e].result = "false"
                  /\ ev[e].posts = apiConfig.retryAttempts
                  /\ ev[e].delays = apiConfig.retryAttempts - 1

\* a delivery of three failed attempts returned false
C2_Witness ==
    \E e \in Events :
        /\ ev[e].result = "false" /\ ev[e].okAt = 0
        /\ apiConfig.retryAttempts = 3 /\ ev[e].posts = 3 /\ ev[e].delays = 2

\* C3: forwardMessageToAPI never raises to its caller: whatever the fetch and
\* the read of the response do, the handler's promise is not rejected and a
\* finished delivery has a boolean result.
C3_NeverRaises ==
    \A e \in Events :
        /\ ev[e].result # "raised"
        /\ ev[e].pc # "rejected"
        /\ (Forwarded(e) /\ ev[e].pc \in {"done", "testapi"}) => Returned(e)

\* a delivery whose last attempt failed reading the response body, and one to
\* a malformed endpoint, completed with false
C3_Witness ==
    \E e \in Events :
        /\ ev[e].pc = "done" /\ ev[e].result = "false"
        /\ ev[e].posts = 2
        /\ ~apiConfig.endpointValid

----------------------------------------------------------------------------
(* Properties of the gateway *)

Arrived(r) == rq[r].pc # "idle"
ValidAuth(r) == rq[r].auth = Header("Bearer " \o HTTP_AUTH_TOKEN)
IsPostSend(r) == rq[r].method = "POST" /\ Pathname(rq[r].url) = "/send"
SendsOf(r) == { i \in 1..Len(sends) : sends[i].req = r }
Answered(r, status, text) ==
    /\ rq[r].pc = "done"
    /\ rq[r].resp.head = status
    /\ rq[r].resp.ends = 1
    /\ rq[r].resp.json
    /\ rq[r].resp.error = text

\* C4: every request whose method is not OPTIONS and whose Authorization
\* header is absent or differs from 'Bearer ' + authToken is answered 401
\* {error: "Unauthorized"}, whatever its method, path and body.
C4_UnauthorizedIs401 ==
    \A r \in Requests :
        (Arrived(r) /\ rq[r].method # "OPTIONS" /\ ~ValidAuth(r)) =>
            Answered(r, 401, "Unauthorized")

\* a POST /send without an Authorization header was answered 401
C4_Witness ==
    \E r \in Requests :
        /\ IsPostSend(r) /\ rq[r].auth = NoHeader
        /\ rq[r].resp.head = 401

\* C5: client.sendMessage is invoked only for requests that are POST /send
\* with the exact header 'Bearer ' + authToken; no body is read before the
\* authentication check passed; OPTIONS, GET /status, unauthenticated and
\* unrouted requests cause no send.
C5_SendOnlyAuthenticatedPostSend ==
    /\ \A i \in 1..Len(sends) :
          Arrived(sends[i].req) /\ IsPostSend(sends[i].req) /\ ValidAuth(sends[i].req)
    /\ \A r \in Requests :
          /\ (rq[r].bodyRead \/ rq[r].pc = "body") => (IsPostSend(r) /\ ValidAuth(r))
          /\ (Arrived(r) /\ (rq[r].method = "OPTIONS" \/ ~ValidAuth(r) \/ ~IsPostSend(r))) =>
                (rq[r].calls = 0 /\ SendsOf(r) = {} /\ ~rq[r].bodyRead)

\* an authenticated POST /send caused a send
C5_Witness ==
    \E r \in Requests : IsPostSend(r) /\ ValidAuth(r) /\ SendsOf(r) # {} /\ rq[r].calls = 1

----------------------------------------------------------------------------
(* Properties of the filter *)

Range(seq) == { seq[i] : i \in 1..Len(seq) }

\* keyword is a substring of body when letter case is ignored
SubstringIgnoringCase(keyword, body) ==
    \E start \in 1..(Len(body) + 1) :
        /\ start + Len(keyword) - 1 <= Len(body)
        /\ \A j \in 1..Len(keyword) :
              LowerChar(body[start + j - 1]) = LowerChar(keyword[j])

\* the six rules of the reference decision, in order
SixRules(cfg, sender, body, isFromMe, isGroup) ==
    CASE ~cfg.enabled -> FALSE
      [] cfg.filters.skipOwnMessages /\ isFromMe -> FALSE
      [] cfg.filters.skipGroupMessages /\ isGroup -> FALSE
      [] cfg.filters.allowedSenders # <<>>
            /\ sender \notin Range(cfg.filters.allowedSenders) -> FALSE
      [] cfg.filters.requiredKeywords # <<>>
            /\ \A k \in Range(cfg.filters.requiredKeywords) :
                  ~SubstringIgnoringCase(k, body) -> FALSE
      [] OTHER -> TRUE

\* C6: for every config and every (sender, body, meta), shouldForwardMessage
\* returns what the six-rule reference decision returns.
C6_FilterIsSixRules ==
    \A e \in Events :
        ev[e].decision # "none" =>
            ((ev[e].decision = "forward") <=>
                SixRules(apiConfig, ev[e].sender, ev[e].body, ev[e].fromMe, ev[e].isGroup))

\* an event passed a filter with allowed senders and mixed-case keywords
C6_Witness ==
    \E e \in Events :
        /\ ev[e].decision = "forward"
        /\ apiConfig.filters.allowedSenders # <<>>
        /\ apiConfig.filters.requiredKeywords = << <<"A", "B">> >>
        /\ ev[e].body = <<"A", "b">>

\* C7: with config.enabled false, no inbound message event results in an HTTP
\* POST to the endpoint by the message handler of part_000, whatever its
\* sender, body and metadata and whatever the other filter settings.
C7_DisabledNeverPosts ==
    (program = "part_000" /\ ~apiConfig.enabled) =>
        \A e \in Events :
            /\ ev[e].posts = 0 /\ ev[e].testPosts = 0 /\ ev[e].inflight = 0
            /\ ev[e].pc \in {"idle", "getChat", "done"}

\* with the relay disabled and every filter open, an event was handled to the end
C7_Witness ==
    /\ program = "part_000" /\ ~apiConfig.enabled
    /\ apiConfig.filters = PassAll
    /\ \E e \in Events : ev[e].pc = "done" /\ ev[e].evals = 1

----------------------------------------------------------------------------
(* Properties of POST /send *)

EndsWith(str, suffix) ==
    /\ Len(str) >= Len(suffix)
    /\ SubSeq(str, Len(str) - Len(suffix) + 1, Len(str)) = suffix

\* C8: the recipient passed to client.sendMessage is `to` unchanged when `to`
\* ends with '@c.us' or '@g.us' and `to` followed by '@c.us' otherwise, so
\* every recipient ends with one of the two suffixes.
C8_RecipientBySuffix ==
    \A i \in 1..Len(sends) :
        LET to == rq[sends[i].req].data.to.s
        IN  /\ sends[i].to = IF EndsWith(to, AtCUs) \/ EndsWith(to, AtGUs)
                             THEN to ELSE to \o AtCUs
            /\ EndsWith(sends[i].to, AtCUs) \/ EndsWith(sends[i].to, AtGUs)

\* an authenticated POST /send whose body was parsed to a JSON object
ParsedSend(r) == rq[r].bodyRead /\ rq[r].data.json = "object"

LacksCoordinate(r) == rq[r].data.latitude = Undef \/ rq[r].data.longitude = Undef

LocationError == "Location requires latitude and longitude"

\* C9 as stated: an authenticated POST /send with type 'location' whose body
\* lacks latitude or longitude is answered 400 'Location requires latitude
\* and longitude' and causes no send.
C9_MissingCoordinateIs400 ==
    \A r \in Requests :
        (ParsedSend(r) /\ rq[r].data.type = Str(LocationType) /\ LacksCoordinate(r)) =>
            /\ Answered(r, 400, LocationError)
            /\ rq[r].calls = 0 /\ SendsOf(r) = {}

\* C9 as amended: the same, for a body whose `to` is a non-empty string and
\* whose `message` is truthy (the check of the required fields and the
\* recipient's formatting come first).
C9_MissingCoordinateIs400WithFields ==
    \A r \in Requests :
        (/\ ParsedSend(r) /\ rq[r].data.type = Str(LocationType) /\ LacksCoordinate(r)
         /\ rq[r].data.to.t = "string" /\ Truthy(rq[r].data.to)
         /\ Truthy(rq[r].data.message)) =>
            /\ Answered(r, 400, LocationError)
            /\ rq[r].calls = 0 /\ SendsOf(r) = {}

\* a location request with a longitude and no latitude was answered 400
C9_Witness ==
    \E r \in Requests :
        /\ ParsedSend(r) /\ rq[r].data.type = Str(LocationType)
        /\ rq[r].data.to = Str(<<"1">>) /\ Truthy(rq[r].data.message)
        /\ rq[r].data.latitude = Undef /\ rq[r].data.longitude = Num(-122)
        /\ rq[r].resp.head = 400

\* C10: an authenticated POST /send with type 'location', non-empty to and
\* message and numeric latitude and longitude (0 included) is never answered
\* 400 'Location requires latitude and longitude': client.sendMessage is
\* invoked exactly once, with a location built from those coordinates.
C10_NumericCoordinatesAreSent ==
    \A r \in Requests :
        (/\ ParsedSend(r) /\ rq[r].data.type = Str(LocationType)
         /\ rq[r].data.to.t = "string" /\ Truthy(rq[r].data.to)
         /\ Truthy(rq[r].data.message)
         /\ rq[r].data.latitude.t = "number" /\ rq[r].data.longitude.t = "number") =>
            /\ rq[r].resp.error # LocationError
            /\ rq[r].calls = 1
            /\ \E i \in SendsOf(r) :
                  /\ sends[i].content.kind = "location"
                  /\ sends[i].content.latitude = rq[r].data.latitude
                  /\ sends[i].content.longitude = rq[r].data.longitude

\* the body's `to` is a non-empty string and its `message` is truthy
HasFields(r) ==
    /\ rq[r].data.to.t = "string" /\ Truthy(rq[r].data.to)
    /\ Truthy(rq[r].data.message)

\* C11: for an accepted location request the location handed to
\* client.sendMessage carries the request's name and address when the body
\* gives them (Location takes latitude, longitude and an options object that
\* holds name and address).
C11_LocationCarriesNameAndAddress ==
    \A i \in 1..Len(sends) :
        sends[i].content.kind = "location" =>
            /\ sends[i].content.name = rq[sends[i].req].data.name
            /\ sends[i].content.address = rq[sends[i].req].data.address

\* C12: an authenticated POST /send whose JSON body lacks `to` or lacks
\* `message` is answered 400 'Missing required fields: to, message' and
\* causes no send; a body with both and without `type` is handled as type
\* 'text': client.sendMessage is invoked once with the formatted recipient
\* and the message.
C12_MissingFieldsAndDefaultType ==
    \A r \in Requests :
        /\ (ParsedSend(r) /\ (rq[r].data.to = Undef \/ rq[r].data.message = Undef)) =>
              /\ Answered(r, 400, "Missing required fields: to, message")
              /\ rq[r].calls = 0 /\ SendsOf(r) = {}
        /\ (ParsedSend(r) /\ HasFields(r) /\ rq[r].data.type = Undef) =>
              /\ rq[r].calls = 1
              /\ \E i \in SendsOf(r) :
                    /\ sends[i].to = FormatPhoneNumber(rq[r].data.to.s)
                    /\ sends[i].content.kind = "text"
                    /\ sends[i].content.message = rq[r].data.message

\* a body with coordinates and without `type` was sent as text and answered
C12_Witness ==
    \E r \in Requests :
        /\ ParsedSend(r) /\ HasFields(r) /\ rq[r].data.type = Undef
        /\ rq[r].data.latitude # Undef
        /\ SendsOf(r) # {} /\ rq[r].pc = "done"

\* C13: an authenticated POST /send whose body has `to` and `message` and a
\* type other than 'text' and 'location' is answered 400 'Unsupported message
\* type' and causes no send.
C13_OtherTypeIs400 ==
    \A r \in Requests :
        (/\ ParsedSend(r) /\ HasFields(r)
         /\ rq[r].data.type \notin {Undef, Str(TextType), Str(LocationType)}) =>
            /\ Answered(r, 400, "Unsupported message type")
            /\ rq[r].calls = 0 /\ SendsOf(r) = {}

\* a request of another type, coordinates included, was answered 400
C13_Witness ==
    \E r \in Requests :
        /\ ParsedSend(r) /\ HasFields(r)
        /\ rq[r].data.type.t = "string"
        /\ rq[r].data.type \notin {Str(TextType), Str(LocationType)}
        /\ rq[r].data.latitude # Undef /\ rq[r].data.longitude # Undef
        /\ rq[r].resp.head = 400

\* C14: when the request's client.sendMessage call returned a receipt the
\* request is answered 200 {success: true, messageId, timestamp} with exactly
\* that receipt's identifier and timestamp; no response says success without
\* a send of that request that completed.
C14_SuccessCarriesTheReceipt ==
    \A r \in Requests :
        /\ rq[r].receipt # NoReceipt =>
              /\ rq[r].pc = "done"
              /\ rq[r].resp.head = 200 /\ rq[r].resp.ends = 1 /\ rq[r].resp.json
              /\ rq[r].resp.success /\ rq[r].resp.error = ""
              /\ rq[r].resp.messageId = rq[r].receipt.id
              /\ rq[r].resp.timestamp = rq[r].receipt.timestamp
        /\ rq[r].resp.success =>
              /\ rq[r].receipt # NoReceipt
              /\ rq[r].calls = 1 /\ SendsOf(r) # {}

\* a send returned the receipt (msgB, 1700000001) and the request was answered
C14_Witness ==
    \E r \in Requests :
        /\ rq[r].receipt = [id |-> "msgB", timestamp |-> 1700000001]
        /\ rq[r].resp.head = 200 /\ rq[r].resp.success

\* C15: when the request's client.sendMessage call raises, the request is
\* answered 500 {error: "Failed to send message", details: the exception's
\* message}; nothing is retried: a request causes at most one send call.
C15_SendFailureIs500NoRetry ==
    \A r \in Requests :
        /\ rq[r].sendError # "" =>
              /\ Answered(r, 500, "Failed to send message")
              /\ rq[r].resp.details = rq[r].sendError
              /\ ~rq[r].resp.success
        /\ rq[r].calls <= 1
        /\ Cardinality(SendsOf(r)) = rq[r].calls

\* a send raised 'Session closed' and the request was answered 500
C15_Witness ==
    \E r \in Requests :
        /\ rq[r].sendError = "Session closed"
        /\ rq[r].calls = 1
        /\ rq[r].resp.head = 500

\* C16: a request error is answered with a 4xx status and an `error` field:
\* an authenticated POST /send whose body is not valid JSON, or whose `to` is
\* present and not a string, is answered 4xx, never 5xx.
C16_RequestErrorsAre4xx ==
    \A r \in Requests :
        (/\ rq[r].bodyRead
         /\ \/ rq[r].data.json = "malformed"
            \/ /\ rq[r].data.json = "object"
               /\ rq[r].data.to.t \notin {"undefined", "string"}) =>
            /\ rq[r].pc = "done"
            /\ rq[r].resp.ends = 1 /\ rq[r].resp.json
            /\ rq[r].resp.head \in 400..499
            /\ rq[r].resp.error # ""

IsGetStatus(r) == rq[r].method = "GET" /\ Pathname(rq[r].url) = "/status"

\* C17: an authenticated request whose method is not OPTIONS and whose
\* (method, path) is neither (POST, /send) nor (GET, /status) is answered 404
\* {error: "Not found"} and causes no send; GET /send and POST /status are
\* such requests.
C17_UnroutedIs404 ==
    \A r \in Requests :
        (/\ Arrived(r) /\ rq[r].method # "OPTIONS" /\ ValidAuth(r)
         /\ ~IsPostSend(r) /\ ~IsGetStatus(r)) =>
            /\ Answered(r, 404, "Not found")
            /\ ~rq[r].bodyRead
            /\ rq[r].calls = 0 /\ SendsOf(r) = {}

\* an authenticated POST /status was answered 404
C17_Witness ==
    \E r \in Requests :
        /\ ValidAuth(r) /\ rq[r].method = "POST" /\ rq[r].url = "/status"
        /\ rq[r].resp.head = 404

\* C18: every OPTIONS request, whatever its path and with or without an
\* Authorization header, is answered 200 with an empty body and nothing else
\* happens: no body is read and no send is caused.
C18_OptionsIs200Empty ==
    \A r \in Requests :
        (Arrived(r) /\ rq[r].method = "OPTIONS") =>
            /\ rq[r].pc = "done"
            /\ rq[r].resp = [NoResponse EXCEPT !.head = 200, !.ends = 1]
            /\ ~rq[r].bodyRead
            /\ rq[r].calls = 0 /\ SendsOf(r) = {}

\* an OPTIONS request for /send without an Authorization header was answered 200
C18_Witness ==
    \E r \in Requests :
        /\ rq[r].method = "OPTIONS" /\ rq[r].url = "/send" /\ rq[r].auth = NoHeader
        /\ rq[r].resp.head = 200

\* C19: every response, whatever its status and route, carries
\* Access-Control-Allow-Origin: *, Access-Control-Allow-Methods: GET, POST,
\* OPTIONS and Access-Control-Allow-Headers: Content-Type, Authorization.
C19_EveryResponseHasCors ==
    \A r \in Requests :
        (rq[r].resp.head # 0 \/ rq[r].resp.ends # 0) =>
            /\ <<"Access-Control-Allow-Origin", "*">> \in rq[r].cors
            /\ <<"Access-Control-Allow-Methods", "GET, POST, OPTIONS">> \in rq[r].cors
            /\ <<"Access-Control-Allow-Headers", "Content-Type, Authorization">> \in rq[r].cors

\* a 500 response was written
C19_Witness ==
    \E r \in Requests : rq[r].resp.head = 500 /\ rq[r].resp.ends = 1 /\ rq[r].cors # {}

\* C20: the handling of an authenticated GET /status answers 200 with status
\* 'running' and with whatsapp 'connected' when client.info is set at that
\* moment and 'connecting' when it is not; it changes nothing else and
\* causes no send.
C20_StatusReportsTheSession ==
    [][\A r \in Requests :
          (/\ rq[r].pc = "idle" /\ rq'[r].pc # "idle"
           /\ rq'[r].method = "GET" /\ Pathname(rq'[r].url) = "/status"
           /\ rq'[r].auth = Header("Bearer " \o HTTP_AUTH_TOKEN)) =>
              /\ rq'[r].pc = "done"
              /\ rq'[r].resp.head = 200 /\ rq'[r].resp.ends = 1 /\ rq'[r].resp.json
              /\ rq'[r].resp.status = "running"
              /\ rq'[r].resp.error = ""
              /\ rq'[r].resp.whatsapp = (IF clientInfo THEN "connected" ELSE "connecting")
              /\ rq'[r].calls = 0 /\ ~rq'[r].bodyRead
              /\ \A q \in Requests \ {r} : rq'[q] = rq[q]
              /\ UNCHANGED <<program, apiConfig, envToken, clientInfo, ev, sends>>]_vars

\* an authenticated GET /status was answered before the session was ready
C20_Witness ==
    \E r \in Requests :
        /\ ValidAuth(r) /\ IsGetStatus(r)
        /\ rq[r].resp.head = 200 /\ rq[r].resp.whatsapp = "connecting"

----------------------------------------------------------------------------
(* Properties of the responses *)

FailureStatuses == {400, 401, 404, 500}

\* C21 as stated: every response of the gateway is valid JSON, and every
\* response with a failure status (400, 401, 404, 500) is a JSON object with
\* an `error` key.
C21_EveryResponseIsJson ==
    \A r \in Requests :
        /\ rq[r].resp.ends >= 1 => rq[r].resp.json
        /\ rq[r].resp.head \in FailureStatuses =>
              (rq[r].resp.ends = 1 /\ rq[r].resp.json /\ rq[r].resp.error # "")

\* C21 as amended: the same for every request other than OPTIONS; the answer
\* to an OPTIONS request is 200 with an empty body, which is not JSON.
C21_EveryResponseButPreflightIsJson ==
    \A r \in Requests :
        /\ (rq[r].resp.ends >= 1 /\ rq[r].method # "OPTIONS") => rq[r].resp.json
        /\ (rq[r].resp.ends >= 1 /\ rq[r].method = "OPTIONS") =>
              (rq[r].resp.head = 200 /\ ~rq[r].resp.json)
        /\ rq[r].resp.head \in FailureStatuses =>
              (rq[r].resp.ends = 1 /\ rq[r].resp.json /\ rq[r].resp.error # "")

\* a 404 response with an error key was written
C21_Witness ==
    \E r \in Requests :
        /\ rq[r].resp.head = 404 /\ rq[r].resp.ends = 1
        /\ rq[r].resp.json /\ rq[r].resp.error = "Not found"

----------------------------------------------------------------------------
(* Properties of the filter, continued *)

\* the rules that precede the keyword rule let the event through
PassesEarlierRules(cfg, e) ==
    /\ cfg.enabled
    /\ ~(cfg.filters.skipOwnMessages /\ ev[e].fromMe)
    /\ ~(cfg.filters.skipGroupMessages /\ ev[e].isGroup)
    /\ (cfg.filters.allowedSenders = <<>>
          \/ ev[e].sender \in Range(cfg.filters.allowedSenders))

SomeKeywordIsSubstring(cfg, e) ==
    \E k \in Range(cfg.filters.requiredKeywords) : SubstringIgnoringCase(k, ev[e].body)

\* C22 as stated: for every non-empty requiredKeywords, shouldForwardMessage
\* returns true exactly when at least one keyword is a substring of the body,
\* letter case ignored.
C22_ForwardIffKeyword ==
    \A e \in Events :
        (ev[e].decision # "none" /\ apiConfig.filters.requiredKeywords # <<>>) =>
            ((ev[e].decision = "forward") <=> SomeKeywordIsSubstring(apiConfig, e))

\* C22 as amended: with non-empty requiredKeywords a forwarded event has a
\* matching keyword, and an event that passes the rules before the keyword
\* rule (enabled, own messages, group messages, allowed senders) is forwarded
\* exactly when at least one keyword matches.
C22_ForwardIffKeywordAmongPassing ==
    \A e \in Events :
        (ev[e].decision # "none" /\ apiConfig.filters.requiredKeywords # <<>>) =>
            /\ ev[e].decision = "forward" => SomeKeywordIsSubstring(apiConfig, e)
            /\ PassesEarlierRules(apiConfig, e) =>
                  ((ev[e].decision = "forward") <=> SomeKeywordIsSubstring(apiConfig, e))

\* the body 'X' was forwarded on the second keyword of ('bb', 'x')
C22_Witness ==
    \E e \in Events :
        /\ apiConfig.filters.requiredKeywords = << <<"b", "b">>, <<"x">> >>
        /\ ev[e].body = <<"X">>
        /\ ev[e].decision = "forward"

\* C23: for every non-empty allowedSenders, an event whose sender is not an
\* element of allowedSenders (exact, case-sensitive equality) is not
\* forwarded, whatever the other filters and the body.
C23_SenderNotAllowedIsSkipped ==
    \A e \in Events :
        (/\ ev[e].decision # "none"
         /\ apiConfig.filters.allowedSenders # <<>>
         /\ \A i \in 1..Len(apiConfig.filters.allowedSenders) :
               apiConfig.filters.allowedSenders[i] # ev[e].sender) =>
            ev[e].decision = "skip"

\* the sender 'U1@c.us' was skipped by the list ('u1@c.us') with every other rule open
C23_Witness ==
    \E e \in Events :
        /\ apiConfig.enabled
        /\ apiConfig.filters = [PassAll EXCEPT !.allowedSenders = << "u1@c.us" >>]
        /\ ev[e].sender = "U1@c.us"
        /\ ev[e].decision = "skip"

SameInputs(e1, e2) ==
    /\ ev[e1].sender = ev[e2].sender /\ ev[e1].body = ev[e2].body
    /\ ev[e1].fromMe = ev[e2].fromMe /\ ev[e1].isGroup = ev[e2].isGroup

----------------------------------------------------------------------------
(* Properties of the delivery, continued *)

\* C25: the attempts of one event are strictly sequential: at most one POST
\* of the event is in flight in every state, and attempt k + 1 starts only
\* after attempt k has resolved and the delay between them has elapsed.
C25_AttemptsAreSequential ==
    /\ [](\A e \in Events :
            /\ ev[e].inflight \in {0, 1}
            /\ ev[e].inflight = 1 <=> ev[e].pc \in {"fetch", "text"}
            /\ ev[e].pc \in {"fetch", "text"} =>
                  (ev[e].posts = ev[e].attempt /\ ev[e].delays = ev[e].attempt - 1))
    /\ [][\A e \in Events :
            ev'[e].posts # ev[e].posts =>
                /\ ev'[e].posts = ev[e].posts + 1
                /\ ev[e].inflight = 0
                /\ \/ ev[e].pc = "getChat" /\ ev'[e].attempt = 1
                   \/ ev[e].pc = "delay" /\ ev'[e].attempt = ev[e].attempt + 1]_vars

\* the third attempt of an event is in flight after two delays
C25_Witness ==
    \E e \in Events :
        /\ ev[e].pc = "fetch" /\ ev[e].inflight = 1
        /\ ev[e].attempt = 3 /\ ev[e].posts = 3 /\ ev[e].delays = 2

\* the handler has passed `await msg.getChat()`
PastGetChat(e) == ev[e].pc \notin {"idle", "getChat"}

\* C26: every inbound message event is evaluated by shouldForwardMessage
\* exactly once, before any HTTP attempt for it: no attempt is made for an
\* event that was not evaluated or whose evaluation returned false, and the
\* filter is not evaluated again between retries.
C26_EvaluatedOnceBeforeAnyAttempt ==
    /\ [](\A e \in Events :
            /\ ev[e].evals = (IF PastGetChat(e) THEN 1 ELSE 0)
            /\ ev[e].evals = 1 <=> ev[e].decision # "none"
            /\ (ev[e].posts > 0 \/ ev[e].inflight > 0 \/ ev[e].attempt > 0) =>
                  (ev[e].evals = 1 /\ ev[e].decision = "forward")
            /\ ev[e].decision = "skip" =>
                  (ev[e].posts = 0 /\ ev[e].delays = 0 /\ ev[e].result = "none"))
    /\ [][\A e \in Events :
            ev[e].decision # "none" =>
                (ev'[e].decision = ev[e].decision /\ ev'[e].evals = ev[e].evals)]_vars

\* an event was evaluated once and is in its third attempt
C26_Witness ==
    \E e \in Events :
        /\ ev[e].evals = 1 /\ ev[e].decision = "forward"
        /\ ev[e].posts = 3 /\ ev[e].pc = "text"

----------------------------------------------------------------------------
(* Properties of concurrent events and requests *)

\* the event's decision, attempts and result follow from its own inputs and
\* from the answers its own attempts got
OwnOutcome(e) ==
    /\ ev[e].decision # "none" =>
          ((ev[e].decision = "forward") <=>
              SixRules(apiConfig, ev[e].sender, ev[e].body, ev[e].fromMe, ev[e].isGroup))
    /\ ev[e].decision = "skip" => (ev[e].posts = 0 /\ ev[e].result = "none")
    /\ ev[e].posts <= apiConfig.retryAttempts
    /\ ev[e].okAt # 0 => ev[e].posts = ev[e].okAt
    /\ Returned(e) =>
          /\ ev[e].result = "true" <=> ev[e].okAt # 0
          /\ ev[e].okAt = 0 =>
                (ev[e].posts = apiConfig.retryAttempts
                   /\ ev[e].delays = apiConfig.retryAttempts - 1)

\* the request's response follows from the request, its body and the answer
\* its own send got
OwnResponse(r) ==
    rq[r].pc = "done" =>
        /\ rq[r].resp.ends = 1
        /\ rq[r].resp.head =
              (IF ~ValidAuth(r) THEN 401
               ELSE IF IsGetStatus(r) THEN 200
               ELSE IF ~IsPostSend(r) THEN 404
               ELSE IF rq[r].sendError # "" THEN 500
               ELSE IF rq[r].receipt # NoReceipt THEN 200
               ELSE 400)
        /\ rq[r].resp.messageId = rq[r].receipt.id
        /\ rq[r].resp.details = rq[r].sendError

\* C27: failures are isolated per unit of work: in every interleaving of
\* events and gateway requests, an event's filter decision, number of
\* attempts and result, and the response to a request, are what its own
\* inputs and the answers to its own calls give, whether or not another
\* event's delivery failed; a step of one event changes no other event, no
\* request and no send.
C27_FailuresAreIsolated ==
    /\ [](/\ \A e \in Events : OwnOutcome(e)
          /\ \A r \in Requests : OwnResponse(r))
    /\ [][\A e \in Events :
            ev'[e] # ev[e] =>
                /\ \A o \in Events \ {e} : ev'[o] = ev[o]
                /\ UNCHANGED <<program, apiConfig, envToken, clientInfo, rq, sends>>]_vars

\* the first event exhausted its retries; the second was delivered on its
\* first attempt and a request was answered 200 all the same
C27_Witness ==
    /\ ev[1].result = "false" /\ ev[1].posts = 2
    /\ ev[2].result = "true" /\ ev[2].posts = 1
    /\ \E r \in Requests : rq[r].resp.head = 200 /\ rq[r].resp.success

\* the event is suspended in an attempt or in the delay between two attempts
Suspended(e) == ev[e].pc \in {"fetch", "text", "delay"}

\* the next step of event b can be taken
CanProceed(b) ==
    /\ (ev[b].pc = "idle" /\ (IF b = 1 THEN TRUE ELSE ev[b - 1].pc # "idle")) =>
          ENABLED MessageEvent(b, SmallMsgs)
    /\ ev[b].pc = "getChat" => ENABLED GetChatResolves(b)
    /\ ev[b].pc = "fetch" => ENABLED FetchResolves(b)
    /\ ev[b].pc = "text" => ENABLED TextResolves(b)
    /\ ev[b].pc = "delay" => ENABLED DelayFires(b)

\* the next step of request r can be taken
CanBeAnswered(r) ==
    /\ (rq[r].pc = "idle" /\ (IF r = 1 THEN TRUE ELSE rq[r - 1].pc # "idle")) =>
          ENABLED HttpRequest(r, {"GET"}, {"/status"}, {Header("Bearer s3cret")})
    /\ rq[r].pc = "body" => ENABLED RequestEnd(r, SmallBodies)
    /\ rq[r].pc = "send" => ENABLED SendResolves(r, SmallReceipts)

\* C28: a slow event neither blocks nor is cancelled: while an event is
\* suspended in an attempt or in a delay, every other event and every
\* gateway request can take its next step, and whatever arrives or completes
\* meanwhile, the suspended event keeps its remaining attempts: it ends only
\* with a 2xx response or after retryAttempts attempts.
C28_SlowEventNeitherBlocksNorIsCancelled ==
    \A a \in Events :
        /\ Suspended(a) =>
              /\ \A b \in Events \ {a} : CanProceed(b)
              /\ \A r \in Requests : CanBeAnswered(r)
              /\ CanProceed(a)
        /\ (Forwarded(a) /\ ev[a].okAt = 0) =>
              /\ ev[a].pc = "delay" => ev[a].posts < apiConfig.retryAttempts
              /\ Returned(a) =>
                    (ev[a].posts = apiConfig.retryAttempts
                       /\ ev[a].delays = apiConfig.retryAttempts - 1)

\* while the first event waits in its delay, the second event was delivered
\* and a request was answered
C28_Witness ==
    /\ ev[1].pc = "delay" /\ ev[1].posts = 1
    /\ ev[2].pc = "done" /\ ev[2].result = "true"
    /\ \E r \in Requests : rq[r].pc = "done" /\ rq[r].resp.head = 200

----------------------------------------------------------------------------
(* Properties of a timeout (specification SpecTimeout: a fetch that does not
   get a 2xx response times out) *)

\* C29: a fetch that exceeds the timeout is one failed attempt, handled like
\* a transport failure: no further POST is made for it; on the last attempt
\* the delivery returns false, otherwise exactly one delay is taken and the
\* next attempt follows it.
C29_TimeoutIsOneFailedAttempt ==
    [][\A e \in Events :
          /\ (ev[e].pc = "fetch" /\ ev'[e] # ev[e] /\ ~ev'[e].ok) =>
                /\ ev'[e].posts = ev[e].posts /\ ev'[e].attempt = ev[e].attempt
                /\ ev'[e] = Thrown([ev[e] EXCEPT !.ok = FALSE], apiConfig, "fetch")
                /\ IF ev[e].attempt = apiConfig.retryAttempts
                   THEN /\ ev'[e].result = "false"
                        /\ ev'[e].delays = ev[e].delays
                        /\ ev'[e].pc \in {"done", "testapi"}
                   ELSE /\ ev'[e].result = "none"
                        /\ ev'[e].pc = "delay"
                        /\ ev'[e].delays = ev[e].delays + 1
                        /\ ev'[e].inflight = 0
          /\ (ev[e].pc = "delay" /\ ev'[e] # ev[e]) =>
                /\ ev'[e].pc = "fetch"
                /\ ev'[e].attempt = ev[e].attempt + 1
                /\ ev'[e].posts = ev[e].posts + 1
                /\ ev'[e].delays = ev[e].delays]_vars

\* three attempts of part_000 timed out: two delays, then false
C29_Witness ==
    \E e \in Events :
        /\ program = "part_000" /\ apiConfig.retryAttempts = 3
        /\ ev[e].result = "false" /\ ~ev[e].ok /\ ev[e].okAt = 0
        /\ ev[e].posts = 3 /\ ev[e].delays = 2

----------------------------------------------------------------------------
(* Properties of the start *)

\* C30: when no auth token is supplied to the process (the environment
\* variable is unset), the gateway serves nothing: no request is accepted as
\* authenticated, no body is read and nothing is sent.
C30_NoTokenNoService ==
    envToken = "" =>
        \A r \in Requests :
            /\ rq[r].pc \notin {"body", "send"}
            /\ ~rq[r].bodyRead /\ rq[r].calls = 0
            /\ (Arrived(r) /\ rq[r].method # "OPTIONS") => rq[r].resp.head = 401

\* C31: a malformed endpoint is found at startup and is never a failure of
\* an event: with a malformed endpoint configured no inbound event enters the
\* retry loop or consumes attempts and delays.
C31_MalformedEndpointNeverPerEvent ==
    ~apiConfig.endpointValid =>
        \A e \in Events :
            /\ ev[e].posts = 0 /\ ev[e].delays = 0
            /\ ev[e].pc \notin {"fetch", "text", "delay"}

----------------------------------------------------------------------------
(* Properties of the retry setting *)

\* C38: with retryAttempts 0 or negative, forwardMessageToAPI makes no HTTP
\* attempt, takes no delay and returns false: an event that passed the filter
\* is dropped without a network call.
C38_NoAttemptsWhenRetryAttemptsNotPositive ==
    \A e \in Events :
        (apiConfig.retryAttempts <= 0 /\ Forwarded(e)) =>
            /\ ev[e].posts = 0 /\ ev[e].delays = 0 /\ ev[e].inflight = 0
            /\ ev[e].okAt = 0
            /\ ev[e].result = "false"
            /\ ev[e].pc \in {"done", "testapi"}

\* with retryAttempts -1 an event passed the filter and its handler ended
C38_Witness ==
    \E e \in Events :
        /\ apiConfig.retryAttempts = -1
        /\ Forwarded(e) /\ ev[e].result = "false" /\ ev[e].pc = "done"

\* attempts, attempts made, delays taken and result of a delivery
Control(rec) == <<rec.attempt, rec.posts, rec.delays, rec.result>>

\* one attempt of the script `prog` from the awaited fetch to the return or
\* to the delay, by the outcome of the fetch and of the read of the body
AttemptSettled(prog, rec, cfg, outcome, read) ==
    LET got == FetchSettledIn(prog, rec, cfg, outcome)
    IN  IF got.pc = "text" THEN TextSettled(got, cfg, read) ELSE got

\* C39: the two versions of forwardMessageToAPI are equivalent in control
\* flow: from every state in which an attempt is awaited, and for every
\* outcome of the attempt (2xx or other status, transport error, timeout,
\* success or failure of reading the response), both versions go on with
\* the same number of attempts and delays and the same result.
C39_VersionsAgree ==
    \A e \in Events :
        ev[e].pc = "fetch" =>
            \A o \in FetchOutcomes(apiConfig), read \in BOOLEAN :
                Control(AttemptSettled("example", ev[e], apiConfig, o, read))
                  = Control(AttemptSettled("part_000", ev[e], apiConfig, o, read))

\* C37: the delivery terminates: when every HTTP call settles and every
\* delay timer fires, every call of forwardMessageToAPI returns, after at most
\* retryAttempts attempts, and the event is then dropped: nothing is posted
\* or waited for on its behalf afterwards.
C37_DeliveryTerminates ==
    /\ \A e \in Events : Forwarded(e) ~> Returned(e)
    /\ [](\A e \in Events :
            /\ ev[e].posts <= (IF apiConfig.retryAttempts > 0
                               THEN apiConfig.retryAttempts ELSE 0)
            /\ Returned(e) => ev[e].pc \in {"done", "testapi"})
    /\ [][\A e \in Events :
            Returned(e) =>
                /\ ev'[e].posts = ev[e].posts /\ ev'[e].delays = ev[e].delays
                /\ ev'[e].result = ev[e].result /\ ev'[e].inflight = 0]_vars

\* a delivery returned false after a failed read of the third response
C37_Witness ==
    \E e \in Events :
        /\ apiConfig.retryAttempts = 3 /\ apiConfig.endpointValid
        /\ ev[e].result = "false" /\ ev[e].posts = 3 /\ ev[e].delays = 2
        /\ ev[e].pc = "done"

----------------------------------------------------------------------------
(* Properties of the observability flags *)

\* the configs that differ from cfg in debug, logSuccess and logErrors only
FlagVariants(cfg) ==
    { [cfg EXCEPT !.debug = d, !.logSuccess = ls, !.logErrors = le] :
        d \in BOOLEAN, ls \in BOOLEAN, le \in BOOLEAN }

\* the record without what was written to the console
Quiet(rec) == [rec EXCEPT !.logs = 0]

\* the step the handler of event e takes next gives, for the same outcome,
\* the same decision, attempts, delays and result under cfg as under apiConfig
SameStep(e, cfg) ==
    LET rec == ev[e]
        additionalData == AdditionalData(rec)
    IN  /\ rec.pc = "getChat" =>
              /\ shouldForwardMessage(cfg, rec.sender, rec.body, additionalData)
                   = shouldForwardMessage(apiConfig, rec.sender, rec.body, additionalData)
              /\ Quiet(StartAttempt([rec EXCEPT !.attempt = 1], cfg))
                   = Quiet(StartAttempt([rec EXCEPT !.attempt = 1], apiConfig))
        /\ rec.pc = "fetch" =>
              \A o \in FetchOutcomes(apiConfig) :
                  Quiet(FetchSettled(rec, cfg, o)) = Quiet(FetchSettled(rec, apiConfig, o))
        /\ rec.pc = "text" =>
              \A read \in BOOLEAN :
                  Quiet(TextSettled(rec, cfg, read)) = Quiet(TextSettled(rec, apiConfig, read))
        /\ rec.pc = "delay" =>
              Quiet(StartAttempt([rec EXCEPT !.attempt = @ + 1], cfg))
                = Quiet(StartAttempt([rec EXCEPT !.attempt = @ + 1], apiConfig))

\* C32: debug, logSuccess and logErrors have no effect on control flow: from
\* every state, under every other setting of the three flags, the same event
\* and the same endpoint outcome give the same filter decision, the same
\* number of attempts and delays and the same result; the flags change the
\* console output only.
C32_FlagsChangeOnlyTheLogs ==
    \A e \in Events : \A cfg \in FlagVariants(apiConfig) : SameStep(e, cfg)

\* with debug on, a delivery of part_000 failed three times and wrote its details
C32_Witness ==
    \E e \in Events :
        /\ program = "part_000" /\ apiConfig.debug /\ ~apiConfig.logErrors
        /\ ev[e].result = "false" /\ ev[e].posts = 3 /\ ev[e].delays = 2
        /\ ev[e].logs > 3

\* C33: the body posted for a forwarded event carries sender, message,
\* messageId, chatType, chatName, messageType, hasMedia and isFromMe of the
\* event, and its timestamp is the ISO-8601 string generated for that attempt,
\* not the event's epoch-seconds timestamp.
C33_BodyCarriesTheEventAndIsoTimestamp ==
    \A e \in 1..MaxEvents :
        ev[e].posts > 0 =>
            LET body == ev[e].request.body
                data == AdditionalData(ev[e])
            IN  /\ DOMAIN body = {"sender", "message", "timestamp"} \cup DOMAIN data
                /\ body.sender = ev[e].sender
                /\ body.message = ev[e].body
                /\ \A k \in DOMAIN data \ {"timestamp"} : body[k] = data[k]
                /\ body.isFromMe = ev[e].fromMe
                /\ body.chatType = (IF ev[e].isGroup THEN "group" ELSE "private")
                /\ body.timestamp = ToISOString(ev[e].attempt)

\* C35: every attempt's POST carries Authorization: 'Bearer ' + apiKey and
\* every configured header, and the Bearer value is the one sent when the
\* configured headers have an entry named Authorization themselves.
C35_BearerWithConfiguredHeaders ==
    \A e \in 1..MaxEvents :
        ev[e].posts > 0 =>
            LET headers == ev[e].request.headers
            IN  /\ DOMAIN headers = DOMAIN apiConfig.headers \cup {"Authorization"}
                /\ headers["Authorization"] = "Bearer " \o apiConfig.apiKey
                /\ \A k \in DOMAIN apiConfig.headers \ {"Authorization"} :
                        headers[k] = apiConfig.headers[k]

\* a second attempt has been posted while the configured headers carry another
\* Authorization value and a further header
C35_Witness ==
    /\ ev[1].posts = 2
    /\ ev[1].attempt = 2
    /\ "Authorization" \in DOMAIN apiConfig.headers
    /\ apiConfig.headers["Authorization"] # "Bearer " \o apiConfig.apiKey
    /\ DOMAIN apiConfig.headers # {"Authorization"}
    /\ ev[1].request.headers["Authorization"] = "Bearer " \o apiConfig.apiKey

\* C36: every gateway request is answered exactly once: res.end is never called
\* twice, and a request whose handler has finished (preflight, 401, 404,
\* status, 400, 200, 500, a throwing send, a throwing construction of the
\* success response) has its status line and its body written.
Finished(r) == rq[r].pc \in {"done", "rejected"}
C36_AnsweredExactlyOnce ==
    \A r \in 1..MaxRequests :
        /\ rq[r].resp.ends <= 1
        /\ Finished(r) => rq[r].resp.ends = 1 /\ HeadersSent(rq[r].resp)

\* the two requests are the same request with the same outcome of their sends
SameRequest(r, q) ==
    /\ rq[r].method = rq[q].method
    /\ rq[r].url = rq[q].url
    /\ rq[r].auth = rq[q].auth
    /\ rq[r].bodyRead = rq[q].bodyRead
    /\ rq[r].data = rq[q].data
    /\ rq[r].receipt = rq[q].receipt
    /\ rq[r].sendError = rq[q].sendError

\* the two responses are the same, but for the session state they report
SameResponse(r, q) ==
    [rq[r].resp EXCEPT !.whatsapp = ""] = [rq[q].resp EXCEPT !.whatsapp = ""]

\* C34: the gateway is stateless across requests: in every interleaving of
\* concurrent requests, two requests with the same method, target, headers,
\* body and outcome of their own send get the same response (but for the
\* session state a status response reports, which is the ready state of the
\* session), the messageId and timestamp of a 200 response are those of the
\* receipt of that request's own send, and a step of one request changes no
\* other request.
C34_ResponsesDependOnOwnRequestOnly ==
    /\ [](\A r \in Requests :
            /\ \A q \in Requests :
                  (Finished(r) /\ Finished(q) /\ SameRequest(r, q)) =>
                      (rq[r].pc = rq[q].pc /\ SameResponse(r, q))
            /\ rq[r].resp.whatsapp = "connected" => clientInfo
            /\ rq[r].resp.success =>
                  /\ rq[r].receipt # NoReceipt
                  /\ rq[r].resp.messageId = rq[r].receipt.id
                  /\ rq[r].resp.timestamp = rq[r].receipt.timestamp)
    /\ [][\A r \in Requests :
            rq'[r] # rq[r] =>
                /\ \A q \in Requests \ {r} : rq'[q] = rq[q]
                /\ UNCHANGED <<program, apiConfig, envToken, clientInfo, ev>>]_vars

\* the second request has been answered with the receipt of its own send
\* while the send of the first request, called earlier, is still in flight
C34_Witness ==
    /\ Len(sends) = 2 /\ sends[1].req = 1 /\ sends[2].req = 2
    /\ rq[1].pc = "send"
    /\ rq[2].resp.success
    /\ rq[2].receipt.id = "msgB"
    /\ rq[2].resp.messageId = "msgB"

====
